---- MODULE Spec2Model ----
(***************************************************************************)
(* Hand cricket (src/main.py): the round/match state machine of            *)
(* play_hand_cricket, one action per iteration of its frame loop, and the  *)
(* gesture classifier get_hand_run.                                        *)
(*                                                                         *)
(* The state is the set of local variables of play_hand_cricket that       *)
(* survive from one loop iteration to the next.  One step of the model is  *)
(* one whole iteration ("tick"): round start, sound management, the phase  *)
(* logic selected by clock, key handling and the clock increment, in the   *)
(* order of the source.  The texts shown to the player are modelled by the *)
(* constant part of each message (the numbers formatted into them are left *)
(* out).                                                                   *)
(***************************************************************************)
EXTENDS Integers, FiniteSets, Sequences, TLC

VARIABLES
    clock,              \* frame counter of the current round
    player_move,        \* the player's captured move, or None
    computer_move,      \* the opponent's sampled move, or None
    gametext,           \* status text
    success,            \* FALSE after a capture tick without a hand
    player_score,
    computer_score,
    scored_this_round,
    is_player_batting,
    is_out,
    innings,
    round_num,
    game_started,
    run_sound_playing,
    target,             \* None, or the first innings' score
    game_over,
    run_channel,        \* TRUE iff the mixer channels could be created
    running,            \* FALSE once the loop was left by the quit key
    celebrating_win,
    celebrating_lose,
    gif_played_win,
    gif_played_lose,
    celebration_frame_idx,
    key,                \* the key read by the last iteration
    ui_clock,           \* the clock last handed to draw_game_ui
    ui_prompt,          \* TRUE iff draw_game_ui last showed the restart prompt
    event_cue,          \* the sound the last iteration played on event_channel
    anim_trigger,       \* the animation the last iteration started
    hand_landmarks,     \* the landmarks of an observed get_hand_run call
    hand_label,         \* the handedness label of that call
    hand_run            \* what the call returned, None before it returns

vars == <<clock, player_move, computer_move, gametext, success, player_score,
          computer_score, scored_this_round, is_player_batting, is_out,
          innings, round_num, game_started, run_sound_playing, target,
          game_over, run_channel, running, celebrating_win, celebrating_lose,
          gif_played_win, gif_played_lose, celebration_frame_idx, key,
          ui_clock, ui_prompt, event_cue, anim_trigger, hand_landmarks,
          hand_label, hand_run>>

----------------------------------------------------------------------------
(* Bounds of the model *)

\* largest first-innings score the capture inputs are allowed to build up
MaxScore == 7
\* largest round number; the tick that would start a further round is disabled
MaxRound == 3
\* number of frames of each loaded animation
GifFrames == 2
\* vertical coordinates of a landmark range over 0..MaxHeight
MaxHeight == 2

----------------------------------------------------------------------------
(* Program constants *)

None == -1

LeadInEnd == 5
CaptureTick == 15
CheckpointTick == 25
GraceEnd == 50
RunSoundFrom == 10
RunSoundTo == 30
ThumbWeight == 6

\* random.choice([1, 2, 3, 4, 6])
ComputerMoves == {1, 2, 3, 4, 6}

TextStart == "Press 'S' to Start the Game!"
TextReady == "Get Ready..."
TextYouBat == "You batting - Show your hand!"
TextComputerBat == "Computer batting - Show your hand!"
TextOut == "OUT! Both showed the same!"
TextYouScored == "You scored run(s)!"
TextComputerScored == "Computer scored run(s)!"
TextChased == "Computer Won! They chased the target!"
TextNoHand == "Hand not detected! Please show your hand clearly."
TextInningsOver == "Innings Over! Computer needs target to win."
TextWon == "You Won the Game! Press 'N' to restart"
TextLost == "You Lost the Game! Press 'N' to restart"
TextTie == "It's a Tie! Press 'N' to restart"
TextEmpty == ""

KeyNone == "none"
CueNone == "none"
CueOut == "out"
CueWin == "win"
CueLose == "lose"
CueTie == "tie"
AnimVictory == "victory"
AnimGameOver == "game_over"

----------------------------------------------------------------------------
(* Gesture classifier *)

tip_ids == <<4, 8, 12, 16, 20>>
pip_ids == <<3, 6, 10, 14, 18>>

Max(a, b) == IF a > b THEN a ELSE b
Min(a, b) == IF a < b THEN a ELSE b

\* the thumb counts iff its tip is above its joint and above the tips of the
\* index, middle and ring fingers (smaller y is higher in the image)
ThumbUp(lm) ==
    /\ lm[tip_ids[1]] < lm[pip_ids[1]]
    /\ lm[tip_ids[1]] < lm[tip_ids[2]]
    /\ lm[tip_ids[1]] < lm[tip_ids[3]]
    /\ lm[tip_ids[1]] < lm[tip_ids[4]]

FingerUp(lm, i) == lm[tip_ids[i]] < lm[pip_ids[i]]

\* get_hand_run without the upper clamp
get_hand_run_unclamped(lm, handedness) ==
    LET thumb == IF ThumbUp(lm) THEN ThumbWeight ELSE 0
        others == Cardinality({i \in 2..5 : FingerUp(lm, i)})
        finger_count == thumb + others
    IN  Max(1, finger_count)

\* get_hand_run with the thumb counted as one more finger
get_hand_run_thumb_as_finger(lm, handedness) ==
    LET thumb == IF ThumbUp(lm) THEN 1 ELSE 0
        others == Cardinality({i \in 2..5 : FingerUp(lm, i)})
        finger_count == thumb + others
    IN  Max(1, Min(6, finger_count))

\* lm maps a landmark index to its vertical coordinate
get_hand_run(lm, handedness) ==
    LET thumb == IF ThumbUp(lm) THEN ThumbWeight ELSE 0
        others == Cardinality({i \in 2..5 : FingerUp(lm, i)})
        finger_count == thumb + others
    IN  Max(1, Min(6, finger_count))

Landmarks == 0..20

\* A hand pose with the thumb raised above everything (or folded) and the
\* first n of the four fingers extended.
Pose(thumb, n) ==
    [k \in Landmarks |->
        IF k = 4 THEN (IF thumb THEN 0 ELSE 4)
        ELSE IF k \in {8, 12, 16, 20}
             THEN (IF (k \div 4) - 1 <= n THEN 1 ELSE 3)
             ELSE 2]

\* the landmarks get_hand_run reads
ReadLandmarks == {3, 4, 6, 8, 10, 12, 14, 16, 18, 20}

\* a hand whose landmarks that are read have the heights h
Hand(h) == [k \in Landmarks |-> IF k \in ReadLandmarks THEN h[k] ELSE 0]

\* the poses the detector reports in the game model
Hands == {Pose(t, n) : t \in BOOLEAN, n \in 0..4}
Handedness == {"Left", "Right"}

----------------------------------------------------------------------------
(* The state as a record, and the steps of one loop iteration *)

State ==
    [clock |-> clock, player_move |-> player_move,
     computer_move |-> computer_move, gametext |-> gametext,
     success |-> success, player_score |-> player_score,
     computer_score |-> computer_score,
     scored_this_round |-> scored_this_round,
     is_player_batting |-> is_player_batting, is_out |-> is_out,
     innings |-> innings, round_num |-> round_num,
     game_started |-> game_started,
     run_sound_playing |-> run_sound_playing, target |-> target,
     game_over |-> game_over, run_channel |-> run_channel,
     running |-> running, celebrating_win |-> celebrating_win,
     celebrating_lose |-> celebrating_lose,
     gif_played_win |-> gif_played_win,
     gif_played_lose |-> gif_played_lose,
     celebration_frame_idx |-> celebration_frame_idx, key |-> key,
     ui_clock |-> ui_clock, ui_prompt |-> ui_prompt,
     event_cue |-> event_cue, anim_trigger |-> anim_trigger]

InitialState(channel) ==
    [clock |-> 0, player_move |-> None, computer_move |-> None,
     gametext |-> TextStart, success |-> TRUE, player_score |-> 0,
     computer_score |-> 0, scored_this_round |-> FALSE,
     is_player_batting |-> TRUE, is_out |-> FALSE, innings |-> 1,
     round_num |-> 0, game_started |-> FALSE,
     run_sound_playing |-> FALSE, target |-> None, game_over |-> FALSE,
     run_channel |-> channel, running |-> TRUE,
     celebrating_win |-> FALSE, celebrating_lose |-> FALSE,
     gif_played_win |-> FALSE, gif_played_lose |-> FALSE,
     celebration_frame_idx |-> 0, key |-> KeyNone,
     ui_clock |-> 0, ui_prompt |-> FALSE,
     event_cue |-> CueNone, anim_trigger |-> CueNone]

\* what an iteration has played or started is recorded per iteration
BeginFrame(s) == [s EXCEPT !.event_cue = CueNone, !.anim_trigger = CueNone]

\* "You Won the Game!" / "You Lost the Game!" in gametext starts an animation
AnimationTriggers(s) ==
    IF s.gametext = TextWon /\ ~s.celebrating_win /\ ~s.gif_played_win
    THEN [s EXCEPT !.celebrating_win = TRUE,
                   !.celebration_frame_idx = 0,
                   !.anim_trigger = AnimVictory]
    ELSE IF s.gametext = TextLost /\ ~s.celebrating_lose /\ ~s.gif_played_lose
         THEN [s EXCEPT !.celebrating_lose = TRUE,
                        !.celebration_frame_idx = 0,
                        !.anim_trigger = AnimGameOver]
         ELSE s

\* animations.get(...) is a non-empty list of GifFrames frames
AnimationLoaded == GifFrames > 0

WinCelebration(s) ==
    IF s.celebrating_win /\ ~s.gif_played_win /\ AnimationLoaded
    THEN IF s.celebration_frame_idx < GifFrames
         THEN [s EXCEPT !.celebration_frame_idx = @ + 1]
         ELSE [s EXCEPT !.gif_played_win = TRUE, !.celebrating_win = FALSE]
    ELSE s

LoseCelebration(s) ==
    IF s.celebrating_lose /\ ~s.gif_played_lose /\ AnimationLoaded
    THEN IF s.celebration_frame_idx < GifFrames
         THEN [s EXCEPT !.celebration_frame_idx = @ + 1]
         ELSE [s EXCEPT !.gif_played_lose = TRUE, !.celebrating_lose = FALSE]
    ELSE s

\* if sounds.get(name) and event_channel: event_channel.play(sounds[name])
PlayEvent(s, name) ==
    [s EXCEPT !.event_cue = IF s.run_channel THEN name ELSE @]

\* if clock == 0 and game_started: a new round begins
RoundStart(s) ==
    IF s.clock = 0 /\ s.game_started
    THEN [s EXCEPT !.round_num = @ + 1, !.scored_this_round = FALSE]
    ELSE s

\* the run loop sound follows the clock window and game_over
SoundManagement(s) ==
    IF /\ s.game_started
       /\ RunSoundFrom <= s.clock /\ s.clock <= RunSoundTo
       /\ ~s.run_sound_playing /\ ~s.game_over
    THEN [s EXCEPT !.run_sound_playing = TRUE]
    ELSE IF /\ (s.clock < RunSoundFrom \/ s.clock > RunSoundTo \/ s.game_over)
            /\ s.run_sound_playing
         THEN [s EXCEPT !.run_sound_playing = FALSE]
         ELSE s

\* if run_sound_playing and run_channel: stop, and clear the flag
StopRunSound(s) ==
    IF s.run_sound_playing /\ s.run_channel
    THEN [s EXCEPT !.run_sound_playing = FALSE]
    ELSE s

LeadIn(s) == [s EXCEPT !.success = TRUE, !.gametext = TextReady]

AwaitGesture(s) ==
    [s EXCEPT !.gametext =
        IF s.is_player_batting THEN TextYouBat ELSE TextComputerBat]

\* Capture that samples the computer's move whether or not a hand is seen
CaptureAlwaysSamples(s, detected, lm, handedness, cm) ==
    IF detected
    THEN [s EXCEPT !.player_move = get_hand_run(lm, handedness),
                   !.computer_move = cm]
    ELSE [s EXCEPT !.success = FALSE, !.computer_move = cm]

\* clock == 15: both moves are taken if a hand is detected
Capture(s, detected, lm, handedness, cm) ==
    IF detected
    THEN [s EXCEPT !.player_move = get_hand_run(lm, handedness),
                   !.computer_move = cm]
    ELSE [s EXCEPT !.success = FALSE]

\* Dismiss with the match ended in either innings
DismissEndsMatch(s) ==
    PlayEvent(StopRunSound([s EXCEPT !.gametext = TextOut,
                                     !.is_out = TRUE,
                                     !.game_over = TRUE]), CueOut)

\* player_move == computer_move: the batting side is out
Dismiss(s) ==
    PlayEvent(StopRunSound([s EXCEPT !.gametext = TextOut,
                                     !.is_out = TRUE,
                                     !.game_over = (s.innings = 2)]), CueOut)

\* ScoreRun without the chase check of the second innings
ScoreRunNoChase(s) ==
    LET run == IF s.is_player_batting THEN s.player_move ELSE s.computer_move
    IN  IF s.is_player_batting
        THEN [s EXCEPT !.player_score = @ + run, !.gametext = TextYouScored]
        ELSE [s EXCEPT !.computer_score = @ + run,
                       !.gametext = TextComputerScored]

\* ScoreRun with the run taken from the fielding side's move
ScoreRunOpponentMove(s) ==
    LET run == IF s.is_player_batting THEN s.computer_move ELSE s.player_move
    IN  IF s.is_player_batting
        THEN [s EXCEPT !.player_score = @ + run, !.gametext = TextYouScored]
        ELSE LET t == [s EXCEPT !.computer_score = @ + run,
                                !.gametext = TextComputerScored]
             IN  IF t.innings = 2 /\ t.computer_score > t.player_score
                 THEN [t EXCEPT !.gametext = TextChased,
                                !.is_out = TRUE,
                                !.game_over = TRUE]
                 ELSE t

\* ScoreRun whose successful chase ends the match without setting is_out
ScoreRunChaseNotOut(s) ==
    LET run == IF s.is_player_batting THEN s.player_move ELSE s.computer_move
    IN  IF s.is_player_batting
        THEN [s EXCEPT !.player_score = @ + run, !.gametext = TextYouScored]
        ELSE LET t == [s EXCEPT !.computer_score = @ + run,
                                !.gametext = TextComputerScored]
             IN  IF t.innings = 2 /\ t.computer_score > t.player_score
                 THEN [t EXCEPT !.gametext = TextChased,
                                !.game_over = TRUE]
                 ELSE t

\* ScoreRun that credits the player whichever side bats
ScoreRunCreditsPlayer(s) ==
    [s EXCEPT !.player_score = @ + s.player_move,
              !.gametext = TextYouScored]

\* the batting side scores its own move; a successful chase ends the match
ScoreRun(s) ==
    LET run == IF s.is_player_batting THEN s.player_move ELSE s.computer_move
    IN  IF s.is_player_batting
        THEN [s EXCEPT !.player_score = @ + run, !.gametext = TextYouScored]
        ELSE LET t == [s EXCEPT !.computer_score = @ + run,
                                !.gametext = TextComputerScored]
             IN  IF t.innings = 2 /\ t.computer_score > t.player_score
                 THEN [t EXCEPT !.gametext = TextChased,
                                !.is_out = TRUE,
                                !.game_over = TRUE]
                 ELSE t

\* OutcomePending without the scored_this_round guard
OutcomeAlwaysPending(s) == TRUE

\* if not scored_this_round
OutcomePending(s) == ~s.scored_this_round

ApplyOutcome(s) ==
    LET t == IF s.player_move = s.computer_move THEN Dismiss(s)
             ELSE ScoreRun(s)
    IN  [t EXCEPT !.scored_this_round = TRUE]

\* Resolve without the test of success
ResolveIgnoresSuccess(s) ==
    IF OutcomePending(s) THEN ApplyOutcome(s) ELSE s

\* 15 < clock < 25
Resolve(s) ==
    IF s.success
    THEN IF OutcomePending(s) THEN ApplyOutcome(s) ELSE s
    ELSE [s EXCEPT !.gametext = TextNoHand]

\* InningsOver without the assignment of target
InningsOverNoTarget(s) ==
    [s EXCEPT !.is_player_batting = FALSE,
              !.is_out = FALSE,
              !.gametext = TextInningsOver,
              !.innings = @ + 1,
              !.game_over = FALSE]

\* InningsOver that leaves the player batting
InningsOverKeepsBatting(s) ==
    [s EXCEPT !.target = s.player_score,
              !.is_out = FALSE,
              !.gametext = TextInningsOver,
              !.innings = @ + 1,
              !.game_over = FALSE]

InningsOver(s) ==
    [s EXCEPT !.target = s.player_score,
              !.is_player_batting = FALSE,
              !.is_out = FALSE,
              !.gametext = TextInningsOver,
              !.innings = @ + 1,
              !.game_over = FALSE]

\* ResultText with a tie reported as a win
ResultTextTieWins(s) ==
    IF s.player_score >= s.computer_score THEN TextWon
    ELSE IF s.computer_score > s.player_score THEN TextLost
    ELSE TextTie

ResultText(s) ==
    IF s.player_score > s.computer_score THEN TextWon
    ELSE IF s.computer_score > s.player_score THEN TextLost
    ELSE TextTie

ResultCue(s) ==
    IF s.player_score > s.computer_score THEN CueWin
    ELSE IF s.computer_score > s.player_score THEN CueLose
    ELSE CueTie

\* Finalize that plays no result sound
FinalizeSilent(s) ==
    LET t == StopRunSound(s)
    IN  [t EXCEPT !.game_over = TRUE, !.gametext = ResultText(t)]

Finalize(s) ==
    LET t == StopRunSound(s)
    IN  PlayEvent([t EXCEPT !.game_over = TRUE, !.gametext = ResultText(t)],
                  ResultCue(t))

\* clock == 25
Checkpoint(s) ==
    IF s.is_out
    THEN IF s.innings = 1 THEN InningsOver(s) ELSE Finalize(s)
    ELSE s

\* AutoAdvance without the test of game_over
AutoAdvanceAlways(s) ==
    [s EXCEPT !.clock = -1,
              !.gametext = TextEmpty,
              !.player_move = None,
              !.computer_move = None,
              !.success = TRUE]

\* AutoAdvance with the clock set to 0, which the increment turns into 1
AutoAdvanceToZero(s) ==
    IF ~s.game_over
    THEN [s EXCEPT !.clock = 0,
                   !.gametext = TextEmpty,
                   !.player_move = None,
                   !.computer_move = None,
                   !.success = TRUE]
    ELSE s

\* clock > 25
AutoAdvance(s) ==
    IF ~s.game_over
    THEN [s EXCEPT !.clock = -1,
                   !.gametext = TextEmpty,
                   !.player_move = None,
                   !.computer_move = None,
                   !.success = TRUE]
    ELSE s

\* the if / elif chain on game_started and clock
GameStateLogic(s, detected, lm, handedness, cm) ==
    IF ~s.game_started THEN [s EXCEPT !.gametext = TextStart]
    ELSE IF 0 <= s.clock /\ s.clock < LeadInEnd THEN LeadIn(s)
    ELSE IF LeadInEnd <= s.clock /\ s.clock < CaptureTick THEN AwaitGesture(s)
    ELSE IF s.clock = CaptureTick
         THEN Capture(s, detected, lm, handedness, cm)
    ELSE IF CaptureTick < s.clock /\ s.clock < CheckpointTick THEN Resolve(s)
    ELSE IF s.clock = CheckpointTick THEN Checkpoint(s)
    ELSE IF s.clock > CheckpointTick THEN AutoAdvance(s)
    ELSE s

\* draw_game_ui is handed the clock and shows the restart prompt
\* if innings == 2 and is_out
DrawUI(s) ==
    [s EXCEPT !.ui_clock = s.clock,
              !.ui_prompt = (s.innings = 2 /\ s.is_out)]

Keys == {KeyNone, "s", "n"}

StartGame(s) ==
    [s EXCEPT !.game_started = TRUE, !.clock = 0, !.gametext = TextEmpty]

\* RestartGame that keeps counting rounds
RestartGameKeepsRound(s) ==
    [s EXCEPT !.player_score = 0,
              !.computer_score = 0,
              !.is_player_batting = TRUE,
              !.innings = 1,
              !.clock = 0,
              !.gametext = TextEmpty,
              !.player_move = None,
              !.computer_move = None,
              !.is_out = FALSE,
              !.success = TRUE,
              !.scored_this_round = FALSE,
              !.game_started = FALSE,
              !.target = None,
              !.game_over = FALSE,
              !.gif_played_win = FALSE,
              !.gif_played_lose = FALSE,
              !.celebrating_win = FALSE,
              !.celebrating_lose = FALSE,
              !.celebration_frame_idx = 0,
              !.run_sound_playing = FALSE]

RestartGame(s) ==
    [s EXCEPT !.player_score = 0,
              !.computer_score = 0,
              !.is_player_batting = TRUE,
              !.innings = 1,
              !.round_num = 0,
              !.clock = 0,
              !.gametext = TextEmpty,
              !.player_move = None,
              !.computer_move = None,
              !.is_out = FALSE,
              !.success = TRUE,
              !.scored_this_round = FALSE,
              !.game_started = FALSE,
              !.target = None,
              !.game_over = FALSE,
              !.gif_played_win = FALSE,
              !.gif_played_lose = FALSE,
              !.celebrating_win = FALSE,
              !.celebrating_lose = FALSE,
              !.celebration_frame_idx = 0,
              !.run_sound_playing = FALSE]

\* key == 's' and not game_started / key == 'n' and game_over
ReadKey(s, k) == [s EXCEPT !.key = k]

\* KeyHandling that restarts whenever 'n' is read
KeyHandlingRestartsAnytime(s, k) ==
    IF k = "s" /\ ~s.game_started THEN StartGame(s)
    ELSE IF k = "n" THEN RestartGame(s)
    ELSE s

KeyHandling(s, k) ==
    IF k = "s" /\ ~s.game_started THEN StartGame(s)
    ELSE IF k = "n" /\ s.game_over THEN RestartGame(s)
    ELSE s

\* ClockIncrement whose grace window ends one iteration early
ClockIncrementShortGrace(s) ==
    IF s.game_started /\ ~s.game_over
    THEN [s EXCEPT !.clock = @ + 1]
    ELSE IF s.game_started /\ s.game_over /\ s.clock < GraceEnd
         THEN [s EXCEPT !.clock = @ + 1]
         ELSE s

\* ClockIncrement that waits while the capture has failed
ClockIncrementStalls(s) ==
    IF s.game_started /\ ~s.game_over /\ s.success
    THEN [s EXCEPT !.clock = @ + 1]
    ELSE IF s.game_started /\ s.game_over /\ s.clock <= GraceEnd
         THEN [s EXCEPT !.clock = @ + 1]
         ELSE s

ClockIncrement(s) ==
    IF s.game_started /\ ~s.game_over
    THEN [s EXCEPT !.clock = @ + 1]
    ELSE IF s.game_started /\ s.game_over /\ s.clock <= GraceEnd
         THEN [s EXCEPT !.clock = @ + 1]
         ELSE s

\* The stages of one iteration run in the order of the source; each stage's
\* result is bound to a value before the next stage reads it.

\* one loop iteration up to the point where the key is read
BeforeKey(s, detected, lm, handedness, cm) ==
    CHOOSE r \in
        {DrawUI(e) :
           e \in {GameStateLogic(d, detected, lm, handedness, cm) :
             d \in {SoundManagement(c) :
               c \in {RoundStart(b) :
                 b \in {LoseCelebration(a) :
                   a \in {WinCelebration(z) :
                     z \in {AnimationTriggers(y) :
                       y \in {BeginFrame(s)}}}}}}}} : TRUE

\* one whole loop iteration that does not leave the loop
Frame(s, detected, lm, handedness, cm, k) ==
    CHOOSE r \in {ClockIncrement(c) :
                    c \in {KeyHandling(a, k) :
                      a \in {ReadKey(b, k) :
                        b \in {BeforeKey(s, detected, lm, handedness, cm)}}}} :
        TRUE

\* the iteration on which 'q' is read: break, before the clock increment
QuitFrame(s, detected, lm, handedness, cm) ==
    CHOOSE r \in {[b EXCEPT !.running = FALSE, !.key = "q"] :
                    b \in {BeforeKey(s, detected, lm, handedness, cm)}} : TRUE

----------------------------------------------------------------------------
(* Actions *)

Update(r) ==
    /\ clock' = r.clock
    /\ player_move' = r.player_move
    /\ computer_move' = r.computer_move
    /\ gametext' = r.gametext
    /\ success' = r.success
    /\ player_score' = r.player_score
    /\ computer_score' = r.computer_score
    /\ scored_this_round' = r.scored_this_round
    /\ is_player_batting' = r.is_player_batting
    /\ is_out' = r.is_out
    /\ innings' = r.innings
    /\ round_num' = r.round_num
    /\ game_started' = r.game_started
    /\ run_sound_playing' = r.run_sound_playing
    /\ target' = r.target
    /\ game_over' = r.game_over
    /\ run_channel' = r.run_channel
    /\ running' = r.running
    /\ celebrating_win' = r.celebrating_win
    /\ celebrating_lose' = r.celebrating_lose
    /\ gif_played_win' = r.gif_played_win
    /\ gif_played_lose' = r.gif_played_lose
    /\ celebration_frame_idx' = r.celebration_frame_idx
    /\ key' = r.key
    /\ ui_clock' = r.ui_clock
    /\ ui_prompt' = r.ui_prompt
    /\ event_cue' = r.event_cue
    /\ anim_trigger' = r.anim_trigger
    /\ UNCHANGED <<hand_landmarks, hand_label, hand_run>>

\* the tick that would start round MaxRound + 1 is not taken
RoundAllowed == ~(clock = 0 /\ game_started /\ round_num >= MaxRound)

\* capture inputs keep the first-innings score within MaxScore
CaptureAllowed(detected, lm, handedness, cm) ==
    (detected /\ is_player_batting /\ get_hand_run(lm, handedness) # cm)
        => player_score + get_hand_run(lm, handedness) <= MaxScore

\* the inputs the phase logic does not read
NoHand == Pose(FALSE, 0)

\* the primed variables take the fields of one computed record
Becomes(r) == \E t \in {r} : Update(t)

Quiet(k) ==
    /\ key' = k
    /\ Becomes(Frame(State, FALSE, NoHand, "Right", 1, k))

TickIdle ==
    /\ running /\ ~game_started
    /\ \E k \in Keys : Quiet(k)

TickLeadIn ==
    /\ running /\ game_started /\ RoundAllowed
    /\ 0 <= clock /\ clock < LeadInEnd
    /\ \E k \in Keys : Quiet(k)

TickAwaitGesture ==
    /\ running /\ game_started
    /\ LeadInEnd <= clock /\ clock < CaptureTick
    /\ \E k \in Keys : Quiet(k)

TickCapture ==
    /\ running /\ game_started
    /\ clock = CaptureTick
    /\ \E detected \in BOOLEAN, lm \in Hands, handedness \in Handedness,
          cm \in ComputerMoves, k \in Keys :
          /\ CaptureAllowed(detected, lm, handedness, cm)
          /\ key' = k
          /\ Becomes(Frame(State, detected, lm, handedness, cm, k))

TickResolve ==
    /\ running /\ game_started
    /\ CaptureTick < clock /\ clock < CheckpointTick
    /\ \E k \in Keys : Quiet(k)

TickCheckpoint ==
    /\ running /\ game_started
    /\ clock = CheckpointTick
    /\ \E k \in Keys : Quiet(k)

TickAutoAdvance ==
    /\ running /\ game_started
    /\ clock > CheckpointTick
    /\ \E k \in Keys : Quiet(k)

\* 'q' is read: the loop is left after the phase logic of that iteration
Quit ==
    /\ running /\ RoundAllowed
    /\ IF game_started /\ clock = CaptureTick
       THEN \E detected \in BOOLEAN, lm \in Hands, handedness \in Handedness,
               cm \in ComputerMoves :
               /\ CaptureAllowed(detected, lm, handedness, cm)
               /\ Becomes(QuitFrame(State, detected, lm, handedness, cm))
       ELSE Becomes(QuitFrame(State, FALSE, NoHand, "Right", 1))

\* the variables of play_hand_cricket before the first iteration
MatchInit(channel) ==
    /\ clock = InitialState(channel).clock
    /\ player_move = InitialState(channel).player_move
    /\ computer_move = InitialState(channel).computer_move
    /\ gametext = InitialState(channel).gametext
    /\ success = InitialState(channel).success
    /\ player_score = InitialState(channel).player_score
    /\ computer_score = InitialState(channel).computer_score
    /\ scored_this_round = InitialState(channel).scored_this_round
    /\ is_player_batting = InitialState(channel).is_player_batting
    /\ is_out = InitialState(channel).is_out
    /\ innings = InitialState(channel).innings
    /\ round_num = InitialState(channel).round_num
    /\ game_started = InitialState(channel).game_started
    /\ run_sound_playing = InitialState(channel).run_sound_playing
    /\ target = InitialState(channel).target
    /\ game_over = InitialState(channel).game_over
    /\ run_channel = channel
    /\ running = InitialState(channel).running
    /\ celebrating_win = InitialState(channel).celebrating_win
    /\ celebrating_lose = InitialState(channel).celebrating_lose
    /\ gif_played_win = InitialState(channel).gif_played_win
    /\ gif_played_lose = InitialState(channel).gif_played_lose
    /\ celebration_frame_idx = InitialState(channel).celebration_frame_idx
    /\ key = InitialState(channel).key
    /\ ui_clock = InitialState(channel).ui_clock
    /\ ui_prompt = InitialState(channel).ui_prompt
    /\ event_cue = InitialState(channel).event_cue
    /\ anim_trigger = InitialState(channel).anim_trigger

\* no classifier call is observed while the game runs
Init ==
    /\ \E channel \in BOOLEAN : MatchInit(channel)
    /\ hand_landmarks = NoHand
    /\ hand_label = "Right"
    /\ hand_run = None

Tick ==
    \/ TickIdle
    \/ TickLeadIn
    \/ TickAwaitGesture
    \/ TickCapture
    \/ TickResolve
    \/ TickCheckpoint
    \/ TickAutoAdvance

Next == Tick \/ Quit

Spec == Init /\ [][Next]_vars

\* frames keep arriving and the quit key is never pressed
FairSpec == Init /\ [][Tick]_vars /\ WF_vars(Tick)

\* get_hand_run on its own: one call on any landmarks and either label
ClassifierInit ==
    /\ MatchInit(FALSE)
    /\ \E h \in [ReadLandmarks -> 0..MaxHeight] : hand_landmarks = Hand(h)
    /\ hand_label \in Handedness
    /\ hand_run = None

Classify ==
    /\ hand_run = None
    /\ hand_run' = get_hand_run(hand_landmarks, hand_label)
    /\ UNCHANGED <<clock, player_move, computer_move, gametext, success,
                   player_score, computer_score, scored_this_round,
                   is_player_batting, is_out, innings, round_num,
                   game_started, run_sound_playing, target, game_over,
                   run_channel, running, celebrating_win, celebrating_lose,
                   gif_played_win, gif_played_lose, celebration_frame_idx,
                   key, ui_clock, ui_prompt, event_cue, anim_trigger,
                   hand_landmarks, hand_label>>

ClassifierSpec == ClassifierInit /\ [][Classify]_vars

----------------------------------------------------------------------------
(* Properties *)

\* a step that is neither the first tick of a round nor a Restart
SameRound == clock # 0 /\ game_started'

\* the Restart command was not handled in this step
NoRestart == game_started'

Scores == <<player_score, computer_score>>
Moves == <<player_move, computer_move>>

\* C1: within a round the outcome is applied at most once.  Once
\* scored_this_round is set it stays set, and neither score changes, on every
\* later tick of the round (the resolve branch runs on each tick with
\* 15 < clock < 25); the flag is cleared only by the first tick of a round or
\* by Restart; and a score changes only on the tick that sets the flag (or on
\* a Restart, which clears the scores).
C1_AtMostOnce ==
    [][ /\ (scored_this_round /\ SameRound)
            => (scored_this_round' /\ UNCHANGED Scores)
        /\ (~scored_this_round /\ ~scored_this_round' /\ NoRestart)
            => UNCHANGED Scores
        /\ (~scored_this_round /\ scored_this_round')
            => (CaptureTick < clock /\ clock < CheckpointTick) ]_vars

\* the resolve branch is evaluated again after the outcome was applied
C1_Witness ==
    /\ scored_this_round /\ success /\ game_started
    /\ clock = CheckpointTick - 1
    /\ player_score > 0

\* C2: target is set if and only if innings is 2, in every state between
\* ticks.
C2_TargetIffSecondInnings == (target # None) <=> (innings = 2)

C2_Witness ==
    /\ innings = 2 /\ target # None /\ target = player_score
    /\ game_started /\ round_num > 0

\* C3: once game_over is true the capture tick is behind (clock > 15) and
\* stays behind, the scores and the moves do not change, and game_over ends
\* only by a Restart.
C3_NothingAfterGameOver ==
    [][ game_over =>
          /\ clock > CaptureTick
          /\ game_over' => (/\ UNCHANGED Scores
                            /\ UNCHANGED Moves
                            /\ clock' > CaptureTick)
          /\ ~game_over' => ~game_started' ]_vars

\* the match is over and the clock has run to the end of the grace window
C3_Witness == game_over /\ game_started /\ clock = GraceEnd + 1

\* C4: a checkpoint tick with innings 2 and is_out (on which Restart is not
\* handled) leaves game_over true and announces the one result that the
\* scores decide: win, loss or tie.
C4_Finalization ==
    [][ (/\ running /\ game_started /\ clock = CheckpointTick
         /\ innings = 2 /\ is_out /\ NoRestart)
        => /\ game_over'
           /\ UNCHANGED Scores
           /\ gametext' \in {TextWon, TextLost, TextTie}
           /\ (gametext' = TextWon) <=> (player_score > computer_score)
           /\ (gametext' = TextLost) <=> (computer_score > player_score)
           /\ (gametext' = TextTie) <=> (player_score = computer_score) ]_vars

\* a match finalized as a tie
C4_Witness ==
    /\ game_over /\ innings = 2 /\ is_out
    /\ gametext = TextTie /\ player_score = computer_score
    /\ clock = CheckpointTick + 1

\* the resolve tick on which the computer's runs take it past the player
ChaseStep ==
    /\ running /\ game_started /\ innings = 2 /\ success
    /\ ~scored_this_round
    /\ CaptureTick < clock /\ clock < CheckpointTick
    /\ player_move # computer_move
    /\ computer_score + computer_move > player_score

ResultTexts == {TextWon, TextLost, TextTie}

\* C5 as stated: a successful chase ends the match on that tick as a computer
\* win, and the finalization of the checkpoint tick does not run afterwards
\* (no result text replaces the chase text).
C5_ChaseBypassesCheckpoint ==
    [][ /\ (ChaseStep /\ NoRestart)
            => (game_over' /\ gametext' = TextChased)
        /\ gametext = TextChased => gametext' \notin ResultTexts ]_vars

\* C5 amended: a successful chase ends the match on that tick as a computer
\* win (game_over and is_out become true), the match stays over, and the
\* finalization still runs on the checkpoint tick of that round, where it
\* announces the loss.
C5_ChaseThenCheckpoint ==
    [][ /\ (ChaseStep /\ NoRestart)
            => /\ game_over' /\ is_out'
               /\ gametext' = TextChased
               /\ computer_score' = computer_score + computer_move
               /\ computer_score' > player_score'
        /\ (gametext = TextChased /\ NoRestart)
            => /\ game_over'
               /\ clock < CheckpointTick => gametext' = TextChased
               /\ clock = CheckpointTick => gametext' = TextLost ]_vars

\* the loss announced by the checkpoint tick after a successful chase
C5_Witness ==
    /\ game_over /\ is_out /\ innings = 2
    /\ gametext = TextLost /\ computer_score > player_score
    /\ clock = CheckpointTick + 1

\* C6: a dismissal in innings 1 sets is_out and leaves game_over false up to
\* the checkpoint tick; that tick sets target to player_score, innings to 2,
\* is_player_batting, is_out and game_over to false; the next tick wraps the
\* clock for a new round.
C6_FirstInningsDismissal ==
    [][ /\ (/\ running /\ game_started /\ innings = 1 /\ success
            /\ ~scored_this_round
            /\ CaptureTick < clock /\ clock < CheckpointTick
            /\ player_move = computer_move)
            => (is_out' /\ ~game_over' /\ innings' = 1)
        /\ (innings = 1 /\ is_out)
            => /\ ~game_over
               /\ CaptureTick < clock /\ clock <= CheckpointTick
               /\ clock < CheckpointTick
                    => (is_out' /\ ~game_over' /\ innings' = 1
                        /\ target' = None)
               /\ clock = CheckpointTick
                    => /\ target' = player_score
                       /\ innings' = 2
                       /\ ~is_player_batting'
                       /\ ~is_out'
                       /\ ~game_over'
                       /\ UNCHANGED Scores
        /\ (gametext = TextInningsOver /\ running')
            => (clock' = 0 /\ innings' = 2 /\ ~game_over' /\ game_started') ]_vars

\* the second innings has begun after a dismissal in the first
C6_Witness ==
    /\ innings = 2 /\ target = player_score /\ ~is_player_batting
    /\ ~is_out /\ ~game_over /\ game_started
    /\ clock = 0 /\ computer_score = 0

\* the tick on which a captured round is resolved and the state is kept
\* (Restart is not handled on it)
Resolved == ~scored_this_round /\ scored_this_round'

\* C7: resolving a captured round with different moves adds the batting
\* side's own move to the batting side's score and leaves the other score;
\* with equal moves it sets is_out and leaves both scores.
C7_Resolution ==
    [][ Resolved =>
          /\ (player_move # computer_move /\ is_player_batting)
                => /\ player_score' = player_score + player_move
                   /\ computer_score' = computer_score
          /\ (player_move # computer_move /\ ~is_player_batting)
                => /\ computer_score' = computer_score + computer_move
                   /\ player_score' = player_score
          /\ (player_move = computer_move)
                => (is_out' /\ UNCHANGED Scores)
          /\ UNCHANGED <<player_move, computer_move, is_player_batting>> ]_vars

\* the computer, batting, has scored its own move, which differs from the
\* player's
C7_Witness ==
    /\ scored_this_round /\ ~is_player_batting
    /\ gametext = TextComputerScored
    /\ computer_score = computer_move /\ player_move > computer_move

\* C8: after a capture tick without a hand the moves are absent, nothing is
\* scored and scores, is_out, innings and game_over keep their values for the
\* rest of the round; success is true again whenever the loop is running
\* with the clock at or before the capture tick.
C8_NoHandRound ==
    [][ /\ ~success
            => /\ player_move = None /\ computer_move = None
               /\ ~scored_this_round /\ ~is_out /\ ~game_over
               /\ running => clock > CaptureTick
               /\ UNCHANGED <<player_score, computer_score, is_out, innings,
                              game_over, scored_this_round, player_move,
                              computer_move>>
        /\ (success /\ ~success')
            => /\ clock = CaptureTick
               /\ UNCHANGED <<player_score, computer_score, is_out, innings,
                              game_over, scored_this_round, player_move,
                              computer_move>>
        /\ (running' /\ clock' <= CaptureTick) => success' ]_vars

\* the round without a hand has reached its auto-advance tick
C8_Witness ==
    /\ ~success /\ gametext = TextNoHand
    /\ clock = CheckpointTick + 1 /\ player_score > 0

\* C9: a tick with clock > 25 and game_over false wraps the clock to 0 and
\* clears both moves; the tick at clock 0 adds exactly 1 to round_num and
\* clears scored_this_round, which stays clear up to the capture tick.
C9_AutoAdvance ==
    [][ /\ (running /\ game_started /\ clock > CheckpointTick /\ ~game_over
            /\ running')
            => /\ clock' = 0
               /\ player_move' = None /\ computer_move' = None
               /\ game_started' /\ ~game_over'
        /\ (running /\ game_started /\ clock = 0)
            => (round_num' = round_num + 1 /\ ~scored_this_round')
        /\ (game_started' /\ 0 < clock' /\ clock' <= CaptureTick)
            => ~scored_this_round' ]_vars

\* a later round has begun with the flag cleared after a round that scored
C9_Witness ==
    /\ game_started /\ round_num = 2 /\ clock = 1
    /\ ~scored_this_round /\ player_score > 0
    /\ player_move = None /\ computer_move = None

\* C10: while frames keep arriving, every round of a started match that is
\* not over ends: the clock wraps to 0 or game_over becomes true; so does
\* a round whose capture found no hand.
C10_RoundTerminates ==
    /\ (game_started /\ ~game_over /\ clock # 0) ~> (clock = 0 \/ game_over)
    /\ (~success) ~> (clock = 0 /\ success)

\* a round without a hand has ended and the next one has begun
C10_Witness ==
    /\ game_started /\ ~game_over /\ clock = 0 /\ round_num = 0
    /\ innings = 1 /\ player_score = 0 /\ success /\ gametext = TextEmpty

\* the match fields as they are when the program starts
CreationDefaults ==
    /\ clock = 0 /\ round_num = 0 /\ innings = 1 /\ is_player_batting
    /\ player_score = 0 /\ computer_score = 0 /\ target = None
    /\ ~is_out /\ ~game_over /\ ~scored_this_round
    /\ player_move = None /\ computer_move = None /\ ~game_started

\* C11: an iteration that reads 'n' in a state where game_over is set, at
\* whatever clock, or on which game_over becomes set before the key is read,
\* ends with every match field at its creation default: clock 0,
\* round_num 0, innings 1, the player batting, both scores 0, no target,
\* is_out, game_over and scored_this_round false, both moves None and
\* game_started false.
C11_RestartResets ==
    [][(key' = "n" /\ (game_over \/ (game_started /\ ~game_started')))
         => CreationDefaults']_vars

\* a restart read before the checkpoint tick of the round that ended the match
C11_Witness ==
    /\ key = "n" /\ ~game_started /\ gametext = TextEmpty
    /\ ui_clock > CaptureTick /\ ui_clock < CheckpointTick
    /\ CreationDefaults

\* the inputs an iteration can read in the current state
FrameInputs ==
    IF game_started /\ clock = CaptureTick
    THEN {i \in BOOLEAN \X Hands \X Handedness \X ComputerMoves :
            CaptureAllowed(i[1], i[2], i[3], i[4])}
    ELSE {<<FALSE, NoHand, "Right", 1>>}

\* two iteration results that differ at most in the key they recorded
SameButKey(x, y) == [x EXCEPT !.key = KeyNone] = [y EXCEPT !.key = KeyNone]

\* C12: in every state and for every camera input, an iteration that reads
\* 's' while the match is started, or 'n' while game_over is not set when
\* the key is handled, ends in the state the same iteration ends in when no
\* key is read.
C12_InvalidIgnored ==
    \A i \in FrameInputs :
      \A b \in {BeforeKey(State, i[1], i[2], i[3], i[4])} :
        \A none \in {Frame(State, i[1], i[2], i[3], i[4], KeyNone)} :
          /\ b.game_started =>
                SameButKey(Frame(State, i[1], i[2], i[3], i[4], "s"), none)
          /\ ~b.game_over =>
                SameButKey(Frame(State, i[1], i[2], i[3], i[4], "n"), none)

\* 'n' was read in a running match and play went on
C12_Witness ==
    /\ key = "n" /\ game_started /\ ~game_over
    /\ clock = CaptureTick + 2 /\ ~is_out /\ player_score > 0

\* the clock as the closing increment of an iteration finds it: 0 after a
\* Start or a Restart, else the clock the phase logic left
ClockBeforeIncrement == IF game_started' # game_started THEN 0 ELSE ui_clock'

\* C13: an iteration that runs to its end adds 1 to the clock exactly when,
\* at its end, the match is started and either game_over is not set or the
\* clock is at most 50, and leaves it alone otherwise; so the clock does not
\* change while no match is started, and once game_over is set it goes up
\* by 1 per iteration, without wrapping, to 51 and stays there until a
\* Restart.
C13_ClockAdvance ==
    [][key' # "q" =>
         /\ clock' \in {ClockBeforeIncrement, ClockBeforeIncrement + 1}
         /\ (clock' = ClockBeforeIncrement + 1) <=>
               (game_started' /\ (~game_over'
                                    \/ ClockBeforeIncrement <= GraceEnd))
         /\ (~game_started /\ ~game_started') => clock' = clock
         /\ (game_over /\ game_over') =>
               /\ clock' = IF clock <= GraceEnd THEN clock + 1 ELSE clock
               /\ clock' <= GraceEnd + 1]_vars

\* a finished match whose clock has stopped at 51
C13_Witness ==
    game_started /\ game_over /\ clock = GraceEnd + 1 /\ key = KeyNone

\* C14 as stated: every iteration at clock 15 of a started match samples
\* the computer's move.
C14_SampledEveryRound ==
    [][(game_started /\ clock = CaptureTick)
         => computer_move' \in ComputerMoves]_vars

\* C14: computer_move is None or one of 1, 2, 3, 4, 6; it takes a value
\* only on the iteration at clock 15 of a started match, where it was None
\* before, and on that iteration it takes a value exactly when a hand is
\* detected, which is exactly when player_move is classified; a round whose
\* capture detects no hand samples nothing.
C14_SampledWithGesture ==
    [][/\ computer_move' \in ComputerMoves \cup {None}
       /\ (computer_move' # computer_move /\ computer_move' # None)
            => (game_started /\ clock = CaptureTick /\ computer_move = None)
       /\ (game_started /\ clock = CaptureTick)
            => /\ (computer_move' # None) <=> (player_move' # None)
               /\ (computer_move' # None) <=> success']_vars

\* both moves were taken on the capture iteration
C14_Witness ==
    /\ game_started /\ clock = CaptureTick + 1 /\ success
    /\ computer_move \in ComputerMoves /\ player_move # None

\* T of the closed form: 1 iff landmark 4 is strictly above landmark 3 and
\* above the tips 8, 12 and 16
ClosedT(lm) ==
    IF lm[4] < lm[3] /\ lm[4] < lm[8] /\ lm[4] < lm[12] /\ lm[4] < lm[16]
    THEN 1 ELSE 0

\* F of the closed form: how many of the fingers have the tip strictly
\* above the joint
ClosedF(lm) ==
    Cardinality({p \in {<<8, 6>>, <<12, 10>>, <<16, 14>>, <<20, 18>>} :
                   lm[p[1]] < lm[p[2]]})

ClosedRun(lm) ==
    LET raw == 6 * ClosedT(lm) + ClosedF(lm)
    IN  IF raw < 1 THEN 1 ELSE IF raw > 6 THEN 6 ELSE raw

AllTipsBelowJoints(lm) ==
    \A p \in {<<4, 3>>, <<8, 6>>, <<12, 10>>, <<16, 14>>, <<20, 18>>} :
       lm[p[1]] > lm[p[2]]

C17_ClockNonNegative == clock >= 0 /\ ui_clock >= 0

\* C18: between iterations innings is 1 or 2 and the player bats exactly
\* when innings is 1; while innings does not change, the batting side does
\* not change.
C18_BattingFollowsInnings ==
    /\ [](innings \in {1, 2} /\ (is_player_batting <=> innings = 1))
    /\ [][innings' = innings => is_player_batting' = is_player_batting]_vars

\* the first iteration of the second innings
C18_Witness ==
    /\ innings = 2 /\ ~is_player_batting /\ game_started
    /\ clock = CheckpointTick + 1 /\ target # None

\* C19: between iterations game_over is set exactly when innings is 2 and
\* is_out is set; so an iteration at clock 25 that takes the finalize
\* branch starts with game_over already set; and on every iteration the
\* restart prompt is drawn exactly when reading 'n' on that iteration
\* would restart the match.
C19_GameOverIffSecondOut ==
    /\ game_over <=> (innings = 2 /\ is_out)
    /\ (game_started /\ clock = CheckpointTick /\ is_out /\ innings = 2)
         => game_over
    /\ \A i \in FrameInputs :
         \A b \in {BeforeKey(State, i[1], i[2], i[3], i[4])} :
           b.ui_prompt <=>
             ~SameButKey(Frame(State, i[1], i[2], i[3], i[4], "n"),
                         Frame(State, i[1], i[2], i[3], i[4], KeyNone))

\* the finalize branch has run and the prompt has been drawn with it
C19_Witness ==
    /\ game_over /\ ui_prompt /\ clock = CheckpointTick + 1
    /\ gametext \in ResultTexts

\* the run loop is sounding on run_channel
RunLoopPlaying == run_sound_playing /\ run_channel

\* C20: the run loop is not sounding at the end of any iteration that ends
\* with is_out set, in either innings.
C20_SilentWhileOut == is_out => ~RunLoopPlaying

ResultCues == {CueWin, CueLose, CueTie}

\* the iteration on which 'n' restarts the match
RestartStep == game_started /\ ~game_started'

\* the iteration at clock 25 that takes the finalize branch
FinalizeStep ==
    game_started /\ clock = CheckpointTick /\ innings = 2 /\ is_out

C21_NeverFive ==
    hand_run # None =>
        /\ hand_run \in {1, 2, 3, 4, 6}
        /\ hand_run # 5
        /\ \E cm \in ComputerMoves : cm = hand_run

\* four fingers up and the thumb down: the largest run below 6
C21_Witness ==
    /\ hand_run = 4 /\ hand_label = "Right"
    /\ ClosedT(hand_landmarks) = 0 /\ ClosedF(hand_landmarks) = 4

\* C22: throughout innings 2 player_score does not change and equals
\* target; while innings is 2 and game_over is not set computer_score is at
\* most player_score, and it never exceeds player_score + 6; so the
\* finalize iteration after a dismissal in innings 2 announces a win or a
\* tie, and the loss text appears only on the finalize iteration that
\* follows a successful chase.
C22_SecondInningsScores ==
    /\ [](innings = 2 =>
            /\ player_score = target
            /\ ~game_over => computer_score <= player_score
            /\ computer_score <= player_score + 6)
    /\ [][/\ (innings = 2 /\ innings' = 2) => player_score' = player_score
          /\ (FinalizeStep /\ gametext = TextOut /\ ~RestartStep)
               => gametext' \in {TextWon, TextTie}
          /\ (gametext' = TextLost /\ gametext # TextLost)
               => (FinalizeStep /\ gametext = TextChased)]_vars

\* a second-innings dismissal finalized as a win of the player
C22_Witness ==
    /\ game_over /\ innings = 2 /\ is_out /\ gametext = TextWon
    /\ player_score = target /\ computer_score > 0
    /\ computer_score < player_score /\ clock = CheckpointTick + 1

====
